---- MODULE Spec2Model ----
(***************************************************************************)
(* A model of src/Model.py: the 1-D bottleneck ResNet (tensor shapes),     *)
(* the train()/test() loops and the metric reporter metric_func.           *)
(*                                                                         *)
(* Four specifications share the variables:                                *)
(*   SpecNet    - ResNet.__init__/_make_layer and ResNet.forward, one      *)
(*                step per stem / bottleneck block / head;                 *)
(*   SpecTrain  - train() and test(), one step per statement group;        *)
(*   SpecData   - the same steps as SpecTrain, from an Init whose loaders  *)
(*                carry richer sample data and fewer epochs;               *)
(*   SpecMetric - metric_func applied to bounded label/probability arrays. *)
(***************************************************************************)
EXTENDS Integers, Sequences, FiniteSets, TLC

VARIABLES
    \* ---- ResNet (SpecNet) ----
    net,        \* the constructed ResNet (ResNet.__init__), or NoNet
    training,   \* nn.Module.training of the network
    x_in,       \* the input tensor's shape
    npc,        \* position in ResNet.forward
    stage,      \* layer_1 .. layer_4 being run
    blk,        \* index of the next block of the stage
    out,        \* shape of `out` in ResNet.forward
    blk_in,     \* input shape of the last Bottleneck.forward
    blk_done,   \* the block the last Bottleneck.forward ran
    add_main,   \* shape of `out` at `out + residual` of the last block
    add_res,    \* shape of `residual` at `out + residual` of the last block
    blk_out,    \* what the last Bottleneck.forward returned
    pooled,     \* shape after avg_pool in ResNet.forward
    \* ---- train()/test() (SpecTrain, SpecData) ----
    pc,         \* position in train()/test()
    loop,       \* the loop's locals and the objects it acts on
    \* ---- metric_func (SpecMetric) ----
    mpc,        \* position of the metric_func call
    m_args,     \* the arguments of the call
    m_res       \* what the call did

netVars == <<net, training, x_in, npc, stage, blk, out, blk_in, blk_done,
            add_main, add_res, blk_out, pooled>>
loopVars == <<pc, loop>>
metricVars == <<mpc, m_args, m_res>>
vars == <<netVars, loopVars, metricVars>>

(***************************************************************************)
(* Bounds of the model.                                                    *)
(***************************************************************************)
MaxBlocks == 2      \* layers[i] ranges over 1..MaxBlocks
MaxBatch == 2       \* batch dimension of the ResNet input ranges over 1..MaxBatch
MaxLen == 33        \* input length ranges over 1..MaxLen

(***************************************************************************)
(* Tensor shapes.  A 3-D shape is (n, c, l); a 2-D shape has l = 0 and     *)
(* keeps its feature count in c.  Raised stands for the exception a layer  *)
(* raises.                                                                 *)
(***************************************************************************)
Shape(n, c, l) == [ok |-> TRUE, n |-> n, c |-> c, l |-> l]
Raised == [ok |-> FALSE, n |-> 0, c |-> 0, l |-> 0]
NoShape == [ok |-> FALSE, n |-> 0, c |-> 0, l |-> -1]

\* class attribute Bottleneck.expansion
expansion == 4
\* ResNet.__init__: self.inplanes = 64
StemPlanes == 64
\* nn.Conv1d(12, 64, ...): the 12 ECG leads
InLeads == 12

\* Output length of a convolution / pooling window (floor mode).
ConvLen(l, k, s, p) == ((l + 2 * p - k) \div s) + 1

\* nn.Conv1d(cin, cout, kernel_size=k, stride=s, padding=p) applied to x.
Conv1d(x, cin, cout, k, s, p) ==
    IF ~x.ok THEN Raised
    ELSE IF x.c # cin THEN Raised
    ELSE IF x.l + 2 * p < k THEN Raised
    ELSE Shape(x.n, cout, ConvLen(x.l, k, s, p))

\* A variant in which a batch of one value per channel is accepted in training.
BatchNorm1dNoCheck(x, c, train) ==
    IF ~x.ok THEN Raised
    ELSE IF x.c # c THEN Raised
    ELSE x

\* nn.BatchNorm1d(c) applied to x: in training mode it needs more than one
\* value per channel (n * l > 1) and raises ValueError otherwise.
BatchNorm1d(x, c, train) ==
    IF ~x.ok THEN Raised
    ELSE IF x.c # c THEN Raised
    ELSE IF train /\ x.n * x.l = 1 THEN Raised
    ELSE x

\* nn.ReLU
ReLU(x) == x

\* nn.MaxPool1d(kernel_size=k, stride=s, padding=p)
MaxPool1d(x, k, s, p) ==
    IF ~x.ok THEN Raised
    ELSE IF x.l + 2 * p < k THEN Raised
    ELSE Shape(x.n, x.c, ConvLen(x.l, k, s, p))

\* nn.AdaptiveAvgPool1d(o)
AdaptiveAvgPool1d(x, o) ==
    IF ~x.ok THEN Raised
    ELSE IF x.l < 1 THEN Raised
    ELSE Shape(x.n, x.c, o)

\* torch.flatten(x, 1): (n, c, l) becomes (n, c * l)
Flatten(x) == IF ~x.ok THEN Raised ELSE Shape(x.n, x.c * x.l, 0)

\* nn.Linear(fin, fout) applied to a 2-D tensor
Linear(x, fin, fout) ==
    IF ~x.ok THEN Raised
    ELSE IF x.c # fin THEN Raised
    ELSE Shape(x.n, fout, 0)

\* out + residual: equal shapes, or shapes that broadcast (a dimension of 1).
BroadcastDim(a, b) == IF a = b THEN a ELSE IF a = 1 THEN b ELSE IF b = 1 THEN a ELSE -1
TensorAdd(a, b) ==
    IF ~a.ok \/ ~b.ok THEN Raised
    ELSE IF BroadcastDim(a.n, b.n) < 0 \/ BroadcastDim(a.c, b.c) < 0
            \/ BroadcastDim(a.l, b.l) < 0 THEN Raised
    ELSE Shape(BroadcastDim(a.n, b.n), BroadcastDim(a.c, b.c), BroadcastDim(a.l, b.l))

(***************************************************************************)
(* Bottleneck and ResNet construction.                                     *)
(***************************************************************************)
NoDownsample == [present |-> FALSE, cin |-> 0, cout |-> 0, stride |-> 0]
Downsample(cin, cout, s) == [present |-> TRUE, cin |-> cin, cout |-> cout, stride |-> s]

\* Bottleneck.__init__(inplanes, planes, stride, downsample)
Bottleneck(inplanes, planes, stride, downsample) ==
    [inplanes |-> inplanes, planes |-> planes, stride |-> stride,
     downsample |-> downsample]

\* A variant that attaches the projection only when the stride is not 1.
NeedsDownsampleStrideOnly(inplanes, planes, stride) == stride # 1

\* The condition of ResNet._make_layer for building a projection.
NeedsDownsample(inplanes, planes, stride) ==
    stride # 1 \/ inplanes # planes * expansion

\* ResNet._make_layer(block, planes, blocks, stride) with self.inplanes = inplanes:
\* the blocks of the stage and the new self.inplanes.
make_layer(inplanes, planes, blocks, stride) ==
    LET downsample == IF NeedsDownsample(inplanes, planes, stride)
                      THEN Downsample(inplanes, planes * expansion, stride)
                      ELSE NoDownsample
        first == Bottleneck(inplanes, planes, stride, downsample)
        newin == planes * expansion
    IN [layers |-> <<first>> \o [j \in 1..(blocks - 1) |->
                                   Bottleneck(newin, planes, 1, NoDownsample)],
        inplanes |-> newin]

\* ResNet.__init__(Bottleneck, layers, num_classes)
ResNetInit(layers, num_classes) ==
    LET l1 == make_layer(StemPlanes, 64, layers[1], 1)
        l2 == make_layer(l1.inplanes, 128, layers[2], 2)
        l3 == make_layer(l2.inplanes, 256, layers[3], 2)
        l4 == make_layer(l3.inplanes, 512, layers[4], 2)
    IN [made |-> TRUE,
        layer |-> <<l1.layers, l2.layers, l3.layers, l4.layers>>,
        fc_in |-> 512 * expansion,
        num_classes |-> num_classes]

NoBlock == Bottleneck(0, 0, 0, NoDownsample)

NoNet == [made |-> FALSE, layer |-> <<>>, fc_in |-> 0, num_classes |-> 0]

\* Bottleneck.forward(x): the operands of the addition and the result.
BottleneckForward(b, x, train) ==
    LET o1 == ReLU(BatchNorm1d(Conv1d(x, b.inplanes, b.planes, 1, 1, 0), b.planes, train))
        o2 == ReLU(BatchNorm1d(Conv1d(o1, b.planes, b.planes, 3, b.stride, 1),
                               b.planes, train))
        o3 == ReLU(BatchNorm1d(Conv1d(o2, b.planes, b.planes * expansion, 1, 1, 0),
                               b.planes * expansion, train))
        residual == IF b.downsample.present
                    THEN BatchNorm1d(Conv1d(x, b.downsample.cin, b.downsample.cout,
                                            1, b.downsample.stride, 0),
                                     b.downsample.cout, train)
                    ELSE x
        added == IF o3.ok THEN TensorAdd(o3, residual) ELSE Raised
    IN [main |-> o3, residual |-> IF o3.ok THEN residual ELSE NoShape,
        out |-> ReLU(added)]

\* The stem of ResNet.forward: conv_1, batch_norm_1, relu, maxpool_1.
StemForward(x, train) ==
    MaxPool1d(ReLU(BatchNorm1d(Conv1d(x, InLeads, StemPlanes, 15, 2, 7),
                               StemPlanes, train)), 3, 2, 1)

\* The head of ResNet.forward: avg_pool, flatten, fc.
HeadForward(n, x) == Linear(Flatten(AdaptiveAvgPool1d(x, 1)), n.fc_in, n.num_classes)

(***************************************************************************)
(* SpecNet: construct a ResNet of Bottleneck blocks and run forward once.  *)
(***************************************************************************)
\* num_classes: the default of ResNet.__init__ and the 5 diagnostic classes.
NumClassesSet == {5, 1000}

\* The layer counts, batch sizes and lengths the model draws, and the
\* ResNet-50 layout on a (4, 12, 1000) batch.
NetInputs ==
    [layers : [1..4 -> 1..MaxBlocks], num_classes : NumClassesSet,
     n : 1..MaxBatch, l : 1..MaxLen]
    \cup {[layers |-> <<3, 4, 6, 3>>, num_classes |-> 5, n |-> 4, l |-> 1000]}

NetIdle ==
    /\ net = NoNet /\ training = FALSE /\ x_in = NoShape /\ npc = "idle"
    /\ stage = 0 /\ blk = 0 /\ out = NoShape /\ blk_in = NoShape
    /\ blk_done = NoBlock /\ blk_out = NoShape
    /\ add_main = NoShape /\ add_res = NoShape /\ pooled = NoShape

NetStart ==
    /\ \E i \in NetInputs :
          /\ net = ResNetInit(i.layers, i.num_classes)
          /\ x_in = Shape(i.n, InLeads, i.l)
    /\ training \in BOOLEAN
    /\ npc = "stem"
    /\ stage = 0 /\ blk = 0 /\ out = NoShape /\ blk_in = NoShape
    /\ blk_done = NoBlock /\ blk_out = NoShape
    /\ add_main = NoShape /\ add_res = NoShape /\ pooled = NoShape

\* ResNet.forward, lines 108-111
ForwardStem ==
    /\ npc = "stem"
    /\ out' = StemForward(x_in, training)
    /\ npc' = IF out'.ok THEN "layer" ELSE "raised"
    /\ stage' = 1 /\ blk' = 1
    /\ UNCHANGED <<net, training, x_in, blk_in, blk_done, add_main, add_res, blk_out,
                   pooled>>
    /\ UNCHANGED <<loopVars, metricVars>>

\* One block of self.layer_k(out): Bottleneck.forward
ForwardBlock ==
    /\ npc = "layer"
    /\ LET r == BottleneckForward(net.layer[stage][blk], out, training)
           last == blk = Len(net.layer[stage])
       IN /\ blk_in' = out
          /\ blk_done' = net.layer[stage][blk]
          /\ add_main' = r.main
          /\ add_res' = r.residual
          /\ out' = r.out
          /\ blk_out' = r.out
          /\ npc' = IF ~r.out.ok THEN "raised"
                    ELSE IF last /\ stage = 4 THEN "head" ELSE "layer"
          /\ stage' = IF r.out.ok /\ last /\ stage < 4 THEN stage + 1 ELSE stage
          /\ blk' = IF ~r.out.ok THEN blk ELSE IF last THEN 1 ELSE blk + 1
    /\ UNCHANGED <<net, training, x_in, pooled>>
    /\ UNCHANGED <<loopVars, metricVars>>

\* ResNet.forward, lines 118-122
ForwardHead ==
    /\ npc = "head"
    /\ pooled' = AdaptiveAvgPool1d(out, 1)
    /\ out' = HeadForward(net, out)
    /\ npc' = IF out'.ok THEN "done" ELSE "raised"
    /\ UNCHANGED <<net, training, x_in, stage, blk, blk_in, blk_done, add_main, add_res,
                   blk_out>>
    /\ UNCHANGED <<loopVars, metricVars>>

NextNet == ForwardStem \/ ForwardBlock \/ ForwardHead

(***************************************************************************)
(* Numbers of metric_func.  The rates are float64 values; the model keeps  *)
(* them as exact fractions n/d in lowest terms, with the two values a      *)
(* division by zero produces under numpy: NaN (0/0) and Inf (x/0, x > 0).  *)
(* All numbers of metric_func are non-negative.                            *)
(***************************************************************************)
RECURSIVE GCD(_, _)
GCD(a, b) == IF b = 0 THEN a ELSE GCD(b, a % b)

NaN == [n |-> 0, d |-> 0]
Inf == [n |-> 1, d |-> 0]
Frac(a, b) ==
    IF b = 0 THEN (IF a = 0 THEN NaN ELSE Inf)
    ELSE LET g == GCD(a, b) IN [n |-> a \div g, d |-> b \div g]
Num(i) == Frac(i, 1)
IsNaN(x) == x = NaN
IsInf(x) == x = Inf
IsFinite(x) == x.d > 0

\* x / y
Div(x, y) ==
    IF IsNaN(x) \/ IsNaN(y) THEN NaN
    ELSE IF IsInf(x) THEN (IF IsInf(y) THEN NaN ELSE Inf)
    ELSE IF IsInf(y) THEN Num(0)
    ELSE Frac(x.n * y.d, x.d * y.n)

\* x * y
Mul(x, y) ==
    IF IsNaN(x) \/ IsNaN(y) THEN NaN
    ELSE IF IsInf(x) THEN (IF y.n = 0 THEN NaN ELSE Inf)
    ELSE IF IsInf(y) THEN (IF x.n = 0 THEN NaN ELSE Inf)
    ELSE Frac(x.n * y.n, x.d * y.d)

\* x + y
Add(x, y) ==
    IF IsNaN(x) \/ IsNaN(y) THEN NaN
    ELSE IF IsInf(x) \/ IsInf(y) THEN Inf
    ELSE Frac(x.n * y.d + y.n * x.d, x.d * y.d)

RECURSIVE SumSeq(_)
SumSeq(q) == IF q = <<>> THEN Num(0) ELSE Add(q[1], SumSeq(Tail(q)))

\* np.mean of a list
Mean(q) == Div(SumSeq(q), Num(Len(q)))

\* A variant of the F1 formula without the factor 2.
F1NoTwo(s, p) == Div(Mul(s, p), Add(s, p))

\* 2 * s * p / (s + p)
F1(s, p) == Div(Mul(Mul(Num(2), s), p), Add(s, p))

(***************************************************************************)
(* Arrays.  A 2-D array is a sequence of rows, a row a sequence of values. *)
(***************************************************************************)
Rows(a) == Len(a)
Cols(a) == IF a = <<>> THEN 0 ELSE Len(a[1])
Column(a, i) == [r \in 1..Len(a) |-> a[r][i]]

RECURSIVE Concatenate(_)
\* np.concatenate of a list of 2-D arrays (along axis 0)
Concatenate(list) == IF list = <<>> THEN <<>> ELSE list[1] \o Concatenate(Tail(list))

(***************************************************************************)
(* metric_func                                                             *)
(***************************************************************************)
\* sklearn confusion_matrix(y_true, y_pred, labels=[0, 1]): cm[t][p]
confusion_matrix(y_true, y_pred) ==
    [t \in 0..1 |-> [p \in 0..1 |->
        Cardinality({r \in 1..Len(y_true) : y_true[r] = t /\ y_pred[r] = p})]]

\* sklearn roc_auc_score raises when y_true holds one class only.
RocAucRaises(y_true) ==
    \/ \A r \in 1..Len(y_true) : y_true[r] = 0
    \/ \A r \in 1..Len(y_true) : y_true[r] = 1

\* sklearn roc_auc_score(y_true, y_score): the share of (positive, negative)
\* pairs ranked correctly, a tie counting one half.
roc_auc_score(y_true, y_score) ==
    LET pos == {r \in 1..Len(y_true) : y_true[r] = 1}
        neg == {r \in 1..Len(y_true) : y_true[r] = 0}
        gt == Cardinality({pr \in pos \X neg : y_score[pr[1]] > y_score[pr[2]]})
        eq == Cardinality({pr \in pos \X neg : y_score[pr[1]] = y_score[pr[2]]})
    IN Frac(2 * gt + eq, 2 * Cardinality(pos) * Cardinality(neg))

Line(tag, v) == [tag |-> tag, v |-> v]

\* One pass of the per-label loop body, lines 243-262 (all but roc_auc).
LabelStats(bin_labels, bin_preds, i) ==
    LET conf_matrix == confusion_matrix(Column(bin_labels, i), Column(bin_preds, i))
        TP_i == conf_matrix[1][1]
        FP_i == conf_matrix[0][1]
        TN_i == conf_matrix[0][0]
        FN_i == conf_matrix[1][0]
        sensitivity_i == Div(Num(TP_i), Num(TP_i + FN_i))
        specificity_i == Div(Num(TN_i), Num(TN_i + FP_i))
        precision_i == Div(Num(TP_i), Num(TP_i + FP_i))
    IN [TP |-> TP_i, FP |-> FP_i, TN |-> TN_i, FN |-> FN_i,
        sensitivity |-> sensitivity_i, specificity |-> specificity_i,
        precision |-> precision_i, my_f1 |-> F1(sensitivity_i, precision_i)]

\* A variant of the micro block that averages the per-label rates.
MicroRatesFromRates(TP, FP, TN, FN) ==
    LET sens == Mean([i \in 1..Len(TP) |-> Div(Num(TP[i]), Num(TP[i] + FN[i]))])
        spec == Mean([i \in 1..Len(TP) |-> Div(Num(TN[i]), Num(TN[i] + FP[i]))])
        prec == Mean([i \in 1..Len(TP) |-> Div(Num(TP[i]), Num(TP[i] + FP[i]))])
    IN [sensitivity |-> sens, specificity |-> spec, precision |-> prec,
        f1 |-> F1(sens, prec)]

\* The micro block, lines 267-272.
MicroRates(TP, FP, TN, FN) ==
    LET TP_mean == Mean([i \in 1..Len(TP) |-> Num(TP[i])])
        FP_mean == Mean([i \in 1..Len(FP) |-> Num(FP[i])])
        TN_mean == Mean([i \in 1..Len(TN) |-> Num(TN[i])])
        FN_mean == Mean([i \in 1..Len(FN) |-> Num(FN[i])])
        micro_sensitivity == Div(TP_mean, Add(TP_mean, FN_mean))
        micro_specificity == Div(TN_mean, Add(TN_mean, FP_mean))
        micro_precision == Div(TP_mean, Add(TP_mean, FP_mean))
    IN [sensitivity |-> micro_sensitivity, specificity |-> micro_specificity,
        precision |-> micro_precision,
        f1 |-> F1(micro_sensitivity, micro_precision)]

\* The macro block, lines 282-286.
MacroRates(sensitivity, specificity, precision) ==
    LET macro_sensitivity == Mean(sensitivity)
        macro_specificity == Mean(specificity)
        macro_precision == Mean(precision)
    IN [sensitivity |-> macro_sensitivity, specificity |-> macro_specificity,
        precision |-> macro_precision,
        f1 |-> F1(macro_sensitivity, macro_precision)]

NoRates == [sensitivity |-> NaN, specificity |-> NaN, precision |-> NaN, f1 |-> NaN]
RatesLine(tag, r) == Line(tag, <<r.sensitivity, r.specificity, r.precision, r.f1>>)

\* A variant of the label loop's exit in which roc_auc_score never raises.
FirstRaisingNever(bin_labels) == 0

\* The first label column at which roc_auc_score raises (0: none).
FirstRaising(bin_labels) ==
    LET bad == {i \in 1..Cols(bin_labels) : RocAucRaises(Column(bin_labels, i))}
    IN IF bad = {} THEN 0 ELSE CHOOSE i \in bad : \A j \in bad : i <= j

\* metric_func(bin_labels, bin_preds, preds): the locals when it ends, what it
\* printed, and whether it ended by raising.
metric_func(bin_labels, bin_preds, preds) ==
    LET K == Cols(bin_labels)
        r == FirstRaising(bin_labels)
        done == IF r = 0 THEN K ELSE r        \* loop bodies entered
        st == [i \in 1..done |-> LabelStats(bin_labels, bin_preds, i)]
        auc_n == IF r = 0 THEN K ELSE r - 1
        TP == [i \in 1..done |-> st[i].TP]
        FP == [i \in 1..done |-> st[i].FP]
        TN == [i \in 1..done |-> st[i].TN]
        FN == [i \in 1..done |-> st[i].FN]
        sensitivity == [i \in 1..done |-> st[i].sensitivity]
        specificity == [i \in 1..done |-> st[i].specificity]
        precision == [i \in 1..done |-> st[i].precision]
        my_f1 == [i \in 1..done |-> st[i].my_f1]
        roc_auc == [i \in 1..auc_n |->
                      roc_auc_score(Column(bin_labels, i), Column(preds, i))]
        RECURSIVE LabelLines(_)
        LabelLines(i) ==
            IF i > done THEN <<>>
            ELSE <<Line("header", <<>>),
                   Line("counts", <<Num(TP[i]), Num(FP[i]), Num(TN[i]), Num(FN[i])>>)>>
                 \o LabelLines(i + 1)
        micro == MicroRates(TP, FP, TN, FN)
        macro == MacroRates(sensitivity, specificity, precision)
    IN IF r # 0
       THEN [raised |-> TRUE, raised_at |-> r,
             TP |-> TP, FP |-> FP, TN |-> TN, FN |-> FN,
             sensitivity |-> sensitivity, specificity |-> specificity,
             precision |-> precision, my_f1 |-> my_f1, roc_auc |-> roc_auc,
             micro |-> NoRates, macro |-> NoRates, weighted_f1 |-> NaN,
             printed |-> LabelLines(1)]
       ELSE [raised |-> FALSE, raised_at |-> 0,
             TP |-> TP, FP |-> FP, TN |-> TN, FN |-> FN,
             sensitivity |-> sensitivity, specificity |-> specificity,
             precision |-> precision, my_f1 |-> my_f1, roc_auc |-> roc_auc,
             micro |-> micro, macro |-> macro, weighted_f1 |-> Mean(my_f1),
             printed |-> LabelLines(1)
                         \o <<RatesLine("micro", micro), RatesLine("macro", macro),
                              Line("weighted", <<Mean(my_f1)>>),
                              Line("roc_auc", <<Mean(roc_auc)>>),
                              Line("report", <<>>)>>]

NoResult ==
    [raised |-> FALSE, raised_at |-> 0, TP |-> <<>>, FP |-> <<>>, TN |-> <<>>,
     FN |-> <<>>, sensitivity |-> <<>>, specificity |-> <<>>, precision |-> <<>>,
     my_f1 |-> <<>>, roc_auc |-> <<>>, micro |-> NoRates, macro |-> NoRates,
     weighted_f1 |-> NaN, printed |-> <<>>]
NoArgs == [bin_labels |-> <<>>, bin_preds |-> <<>>, preds |-> <<>>]

(***************************************************************************)
(* train() and test().                                                     *)
(*                                                                         *)
(* A loader is a sequence of batches; a batch holds 'ecg_signals' (one     *)
(* signal per sample, abstracted to a number) and 'labels' (one row of     *)
(* NumLabels bits per sample).  The network, the optimizer and the         *)
(* criterion are the caller's objects: the network's parameters are a      *)
(* version number that optimizer.step() advances, its logits a function   *)
(* of parameters, mode and signal, and the criterion a function of logits  *)
(* and labels.                                                             *)
(***************************************************************************)
MaxEpoch == 2       \* n_epoch ranges over 0..MaxEpoch
MaxBatches == 2     \* len(loader) ranges over 0..MaxBatches
NumLabels == 2      \* label columns of the data set = outputs of the network
MaxSamples == 2     \* samples of a loader of SpecData, rows of SpecMetric

Batch(sigs, labels) == [ecg_signals |-> sigs, labels |-> labels]
NoBatch == Batch(<<>>, <<>>)

\* Logits take the values -1, 0, 1.
Logit(params, mode, sig, c) == ((params + sig + c + (IF mode THEN 1 ELSE 0)) % 3) - 1

\* net(samples): one row of NumLabels logits per sample
NetForward(params, mode, sigs) ==
    [r \in 1..Len(sigs) |-> [c \in 1..NumLabels |-> Logit(params, mode, sigs[r], c)]]

\* criterion(preds, labels): a number that depends on both
Criterion(preds, labels) ==
    Cardinality({rc \in (1..Len(preds)) \X (1..NumLabels) :
                    (preds[rc[1]][rc[2]] > 0) # (labels[rc[1]][rc[2]] = 1)})

\* torch.sigmoid on the logits -1, 0, 1, in thousandths
Sigmoid1(z) == CASE z = -1 -> 269 [] z = 0 -> 500 [] z = 1 -> 731
Sigmoid(a) == [r \in 1..Len(a) |-> [c \in 1..Len(a[r]) |-> Sigmoid1(a[r][c])]]

\* A variant of the threshold comparison that is not strict.
GreaterOrEqual(p, t) == IF p >= t THEN 1 ELSE 0

\* One entry of (preds > treshold_preds).float()
Greater(p, t) == IF p > t THEN 1 ELSE 0

\* (preds > treshold_preds).float()
Threshold(a, t) == [r \in 1..Len(a) |-> [c \in 1..Len(a[r]) |-> Greater(a[r][c], t)]]

\* A variant of the for statement that stops one batch early.
HasNextOffByOne(it, loader) == it < Len(loader)

\* The for statement over a loader: whether a batch is left at position it.
HasNext(it, loader) == it <= Len(loader)

\* A variant of the epoch mean that keeps the sum.
EpochMeanNoDiv(total, loader) == total

\* total /= len(loader), for a loader that is not empty
EpochMean(total, loader) == Div(total, Num(Len(loader)))

\* A variant of optimizer.step() that leaves the parameters alone.
OptimizerStepNone(params) == params

\* optimizer.step(): the parameters move to their next version
OptimizerStep(params) == params + 1

\* The state of a call of train() or test() before its first statement.
LoopStart(call, n_epoch, thr, mode, train_loader, val_loader, test_loader) ==
    [call |-> call, n_epoch |-> n_epoch, treshold_preds |-> thr,
     train_loader |-> train_loader, val_loader |-> val_loader,
     test_loader |-> test_loader,
     training |-> mode, training0 |-> mode,
     params |-> 0, grad |-> "none",
     epoch |-> 0, it |-> 0, batch |-> NoBatch, preds |-> <<>>, loss |-> 0,
     train_loss |-> Num(0), val_loss |-> Num(0), test_loss |-> Num(0),
     train_labels |-> <<>>, train_preds |-> <<>>, train_prob |-> <<>>,
     val_labels |-> <<>>, val_preds |-> <<>>, val_prob |-> <<>>,
     test_labels |-> <<>>, test_preds |-> <<>>, test_prob |-> <<>>,
     loss_train_history |-> <<>>, loss_val_history |-> <<>>,
     returned |-> NaN,
     metric_args |-> NoArgs, metric |-> NoResult, metric_calls |-> 0,
     ops |-> <<>>, events |-> <<>>, losses |-> <<>>, printed |-> <<>>]

LoopIdle == /\ pc = "idle"
            /\ loop = LoopStart("none", 0, 0, FALSE, <<>>, <<>>, <<>>)

Event(phase, epoch) == [phase |-> phase, epoch |-> epoch]
BatchLoss(phase, epoch, loss) == [phase |-> phase, epoch |-> epoch, loss |-> loss]

(* ------------------------------ train() ------------------------------ *)

\* lines 144-145
T_Enter ==
    /\ pc = "call" /\ loop.call = "train"
    /\ loop' = [loop EXCEPT !.loss_train_history = <<>>, !.loss_val_history = <<>>,
                            !.epoch = 0]
    /\ pc' = "t_epoch"
    /\ UNCHANGED <<netVars, metricVars>>

\* A variant of the epoch head that leaves the network's mode alone.
EpochHeadMode_Keep(mode) == mode

\* net.train(), line 153: the mode after it
EpochHeadMode(mode) == TRUE

\* line 147 (the for statement) and, in the loop, lines 148-153;
\* after the last epoch, line 203
T_Epoch ==
    /\ pc = "t_epoch"
    /\ IF loop.epoch < loop.n_epoch
       THEN /\ loop' = [loop EXCEPT
                   !.printed = @ \o <<Line("epoch", <<Num(loop.epoch + 1)>>)>>,
                   !.train_loss = Num(0), !.val_loss = Num(0),
                   !.train_labels = <<>>, !.train_preds = <<>>, !.train_prob = <<>>,
                   !.val_labels = <<>>, !.val_preds = <<>>, !.val_prob = <<>>,
                   !.training = EpochHeadMode(loop.training),
                   !.it = 1]
            /\ pc' = "t_iter"
       ELSE /\ loop' = loop
            /\ pc' = "returned"
    /\ UNCHANGED <<netVars, metricVars>>

\* line 155: the next batch of train_loader, or the end of the loop;
\* line 156 when there is a batch
T_Next ==
    /\ pc = "t_iter"
    /\ IF HasNext(loop.it, loop.train_loader)
       THEN /\ loop' = [loop EXCEPT !.batch = loop.train_loader[loop.it],
                                    !.ops = <<>>,
                                    !.events = @ \o <<Event("train", loop.epoch + 1)>>]
            /\ pc' = "t_zero"
       ELSE /\ loop' = loop
            /\ pc' = "t_mean"
    /\ UNCHANGED <<netVars, metricVars>>

\* line 157
T_ZeroGrad ==
    /\ pc = "t_zero"
    /\ loop' = [loop EXCEPT !.grad = "zero", !.ops = @ \o <<"zero_grad">>]
    /\ pc' = "t_fwd"
    /\ UNCHANGED <<netVars, metricVars>>

\* line 159
T_Forward ==
    /\ pc = "t_fwd"
    /\ loop' = [loop EXCEPT
            !.preds = NetForward(loop.params, loop.training, loop.batch.ecg_signals),
            !.ops = @ \o <<"forward">>]
    /\ pc' = "t_loss"
    /\ UNCHANGED <<netVars, metricVars>>

\* line 160
T_Loss ==
    /\ pc = "t_loss"
    /\ LET loss == Criterion(loop.preds, loop.batch.labels)
       IN loop' = [loop EXCEPT !.loss = loss,
                               !.ops = @ \o <<"loss">>,
                               !.losses = @ \o <<BatchLoss("train", loop.epoch + 1, loss)>>]
    /\ pc' = "t_bwd"
    /\ UNCHANGED <<netVars, metricVars>>

\* line 162
T_Backward ==
    /\ pc = "t_bwd"
    /\ loop' = [loop EXCEPT !.grad = "set", !.ops = @ \o <<"backward">>]
    /\ pc' = "t_step"
    /\ UNCHANGED <<netVars, metricVars>>

\* line 163
T_Step ==
    /\ pc = "t_step"
    /\ loop' = [loop EXCEPT !.params = OptimizerStep(@), !.ops = @ \o <<"step">>]
    /\ pc' = "t_acc"
    /\ UNCHANGED <<netVars, metricVars>>

\* lines 165-173
T_Accumulate ==
    /\ pc = "t_acc"
    /\ LET prob == Sigmoid(loop.preds)
           bin_preds == Threshold(prob, loop.treshold_preds)
       IN loop' = [loop EXCEPT
               !.train_loss = Add(@, Num(loop.loss)),
               !.preds = prob,
               !.train_prob = Append(@, prob),
               !.train_labels = Append(@, loop.batch.labels),
               !.train_preds = Append(@, bin_preds),
               !.it = @ + 1]
    /\ pc' = "t_iter"
    /\ UNCHANGED <<netVars, metricVars>>

\* lines 175-176; the division raises ZeroDivisionError for an empty loader
T_Mean ==
    /\ pc = "t_mean"
    /\ IF Len(loop.train_loader) = 0
       THEN /\ loop' = loop
            /\ pc' = "raised"
       ELSE /\ LET mean == EpochMean(loop.train_loss, loop.train_loader)
               IN loop' = [loop EXCEPT !.train_loss = mean,
                                       !.loss_train_history = Append(@, mean)]
            /\ pc' = "t_eval"
    /\ UNCHANGED <<netVars, metricVars>>

\* line 178
T_Eval ==
    /\ pc = "t_eval"
    /\ loop' = [loop EXCEPT !.training = FALSE, !.it = 1]
    /\ pc' = "v_iter"
    /\ UNCHANGED <<netVars, metricVars>>

\* line 181: the next batch of val_loader, or the end of the loop; line 182
V_Next ==
    /\ pc = "v_iter"
    /\ IF HasNext(loop.it, loop.val_loader)
       THEN /\ loop' = [loop EXCEPT !.batch = loop.val_loader[loop.it],
                                    !.ops = <<>>,
                                    !.events = @ \o <<Event("val", loop.epoch + 1)>>]
            /\ pc' = "v_fwd"
       ELSE /\ loop' = loop
            /\ pc' = "v_mean"
    /\ UNCHANGED <<netVars, metricVars>>

\* line 183
V_Forward ==
    /\ pc = "v_fwd"
    /\ loop' = [loop EXCEPT
            !.preds = NetForward(loop.params, loop.training, loop.batch.ecg_signals),
            !.ops = @ \o <<"forward">>]
    /\ pc' = "v_acc"
    /\ UNCHANGED <<netVars, metricVars>>

\* lines 184-192
V_Accumulate ==
    /\ pc = "v_acc"
    /\ LET prob == Sigmoid(loop.preds)
           bin_preds == Threshold(prob, loop.treshold_preds)
       IN loop' = [loop EXCEPT
               !.val_loss = Add(@, Num(Criterion(loop.preds, loop.batch.labels))),
               !.ops = @ \o <<"loss">>,
               !.losses = @ \o <<BatchLoss("val", loop.epoch + 1,
                                           Criterion(loop.preds, loop.batch.labels))>>,
               !.preds = prob,
               !.val_prob = Append(@, prob),
               !.val_labels = Append(@, loop.batch.labels),
               !.val_preds = Append(@, bin_preds),
               !.it = @ + 1]
    /\ pc' = "v_iter"
    /\ UNCHANGED <<netVars, metricVars>>

\* lines 194-195; the division raises ZeroDivisionError for an empty loader
V_Mean ==
    /\ pc = "v_mean"
    /\ IF Len(loop.val_loader) = 0
       THEN /\ loop' = loop
            /\ pc' = "raised"
       ELSE /\ LET mean == EpochMean(loop.val_loss, loop.val_loader)
               IN loop' = [loop EXCEPT !.val_loss = mean,
                                       !.loss_val_history = Append(@, mean)]
            /\ pc' = "t_metric"
    /\ UNCHANGED <<netVars, metricVars>>

\* lines 197-198
T_Metric ==
    /\ pc = "t_metric"
    /\ LET args == [bin_labels |-> Concatenate(loop.val_labels),
                    bin_preds |-> Concatenate(loop.val_preds),
                    preds |-> Concatenate(loop.val_prob)]
           res == metric_func(args.bin_labels, args.bin_preds, args.preds)
       IN /\ loop' = [loop EXCEPT
                 !.metric_args = args, !.metric = res,
                 !.metric_calls = @ + 1,
                 !.events = @ \o <<Event("metric", loop.epoch + 1)>>,
                 !.printed = @ \o <<Line("validation", <<>>)>> \o res.printed]
          /\ pc' = IF res.raised THEN "raised" ELSE "t_report"
    /\ UNCHANGED <<netVars, metricVars>>

\* lines 200-201, and the step of the for statement of line 147
T_Report ==
    /\ pc = "t_report"
    /\ loop' = [loop EXCEPT
            !.printed = @ \o <<Line("loss", <<loop.train_loss, loop.val_loss>>)>>,
            !.epoch = @ + 1]
    /\ pc' = "t_epoch"
    /\ UNCHANGED <<netVars, metricVars>>

(* ------------------------------- test() ------------------------------- *)

\* lines 207-210, and the start of the loop of line 213
E_Enter ==
    /\ pc = "call" /\ loop.call = "test"
    /\ loop' = [loop EXCEPT !.training = FALSE, !.test_loss = Num(0),
                            !.test_preds = <<>>, !.test_labels = <<>>,
                            !.test_prob = <<>>, !.it = 1]
    /\ pc' = "e_iter"
    /\ UNCHANGED <<netVars, metricVars>>

\* line 213: the next batch of test_loader, or the end of the loop; line 214
E_Next ==
    /\ pc = "e_iter"
    /\ IF HasNext(loop.it, loop.test_loader)
       THEN /\ loop' = [loop EXCEPT !.batch = loop.test_loader[loop.it],
                                    !.ops = <<>>,
                                    !.events = @ \o <<Event("test", 0)>>]
            /\ pc' = "e_fwd"
       ELSE /\ loop' = loop
            /\ pc' = "e_mean"
    /\ UNCHANGED <<netVars, metricVars>>

\* line 215
E_Forward ==
    /\ pc = "e_fwd"
    /\ loop' = [loop EXCEPT
            !.preds = NetForward(loop.params, loop.training, loop.batch.ecg_signals),
            !.ops = @ \o <<"forward">>]
    /\ pc' = "e_acc"
    /\ UNCHANGED <<netVars, metricVars>>

\* lines 217-224
E_Accumulate ==
    /\ pc = "e_acc"
    /\ LET prob == Sigmoid(loop.preds)
           bin_preds == Threshold(prob, loop.treshold_preds)
       IN loop' = [loop EXCEPT
               !.test_loss = Add(@, Num(Criterion(loop.preds, loop.batch.labels))),
               !.ops = @ \o <<"loss">>,
               !.losses = @ \o <<BatchLoss("test", 0,
                                           Criterion(loop.preds, loop.batch.labels))>>,
               !.preds = prob,
               !.test_prob = Append(@, prob),
               !.test_labels = Append(@, loop.batch.labels),
               !.test_preds = Append(@, bin_preds),
               !.it = @ + 1]
    /\ pc' = "e_iter"
    /\ UNCHANGED <<netVars, metricVars>>

\* line 226; the division raises ZeroDivisionError for an empty loader
E_Mean ==
    /\ pc = "e_mean"
    /\ IF Len(loop.test_loader) = 0
       THEN /\ loop' = loop
            /\ pc' = "raised"
       ELSE /\ loop' = [loop EXCEPT
                   !.test_loss = EpochMean(@, loop.test_loader)]
            /\ pc' = "e_metric"
    /\ UNCHANGED <<netVars, metricVars>>

\* lines 228-229
E_Metric ==
    /\ pc = "e_metric"
    /\ LET args == [bin_labels |-> Concatenate(loop.test_labels),
                    bin_preds |-> Concatenate(loop.test_preds),
                    preds |-> Concatenate(loop.test_prob)]
           res == metric_func(args.bin_labels, args.bin_preds, args.preds)
       IN /\ loop' = [loop EXCEPT
                 !.metric_args = args, !.metric = res,
                 !.metric_calls = @ + 1,
                 !.events = @ \o <<Event("metric", 0)>>,
                 !.printed = @ \o <<Line("test", <<>>)>> \o res.printed]
          /\ pc' = IF res.raised THEN "raised" ELSE "e_report"
    /\ UNCHANGED <<netVars, metricVars>>

\* lines 231-233
E_Report ==
    /\ pc = "e_report"
    /\ loop' = [loop EXCEPT
            !.printed = @ \o <<Line("loss", <<loop.test_loss>>)>>,
            !.returned = loop.test_loss]
    /\ pc' = "returned"
    /\ UNCHANGED <<netVars, metricVars>>

NextLoop ==
    \/ T_Enter \/ T_Epoch \/ T_Next \/ T_ZeroGrad \/ T_Forward \/ T_Loss
    \/ T_Backward \/ T_Step \/ T_Accumulate \/ T_Mean \/ T_Eval
    \/ V_Next \/ V_Forward \/ V_Accumulate \/ V_Mean \/ T_Metric \/ T_Report
    \/ E_Enter \/ E_Next \/ E_Forward \/ E_Accumulate \/ E_Mean \/ E_Metric
    \/ E_Report

(***************************************************************************)
(* The inputs of the loops.                                                *)
(***************************************************************************)
\* treshold_preds, in thousandths: 0.5, and a value a sigmoid output equals
Thresholds == {500, 731}

LabelRows == [1..NumLabels -> {0, 1}]
ZeroRow == [c \in 1..NumLabels |-> 0]
OneRow == [c \in 1..NumLabels |-> 1]

\* Sequences over S of length lo..hi
SeqsOf(S, lo, hi) == UNION {[1..k -> S] : k \in lo..hi}

\* SpecTrain: batches of one sample, all labels clear or all labels set
CtlBatches == {Batch(<<0>>, <<ZeroRow>>), Batch(<<1>>, <<OneRow>>)}
CtlLoaders == SeqsOf(CtlBatches, 0, MaxBatches)

MetricIdle == mpc = "idle" /\ m_args = NoArgs /\ m_res = NoResult

InitTrain ==
    /\ NetIdle /\ MetricIdle
    /\ pc = "call"
    /\ \E thr \in Thresholds, mode \in BOOLEAN :
         \/ \E n_epoch \in 0..MaxEpoch, tl \in CtlLoaders, vl \in CtlLoaders :
               loop = LoopStart("train", n_epoch, thr, mode, tl, vl, <<>>)
         \/ \E el \in CtlLoaders :
               loop = LoopStart("test", 0, thr, mode, <<>>, <<>>, el)

SpecTrain == InitTrain /\ [][NextLoop]_vars

\* SpecData: every split into batches of every sequence of 1..MaxSamples
\* samples, a sample being a signal 0 or 1 and a row of labels; and the
\* empty loader.
DataSamples == [sig : {0, 1}, labels : LabelRows]
RECURSIVE Splits(_)
\* The ways to cut a sequence of samples into consecutive non-empty batches
Splits(q) ==
    IF q = <<>> THEN {<<>>}
    ELSE UNION {{<<Batch([r \in 1..k |-> q[r].sig], [r \in 1..k |-> q[r].labels])>> \o rest :
                   rest \in Splits(SubSeq(q, k + 1, Len(q)))} : k \in 1..Len(q)}
DataLoaders == UNION {Splits(q) : q \in SeqsOf(DataSamples, 0, MaxSamples)}

InitData ==
    /\ NetIdle /\ MetricIdle
    /\ pc = "call"
    /\ \E thr \in Thresholds, dl \in DataLoaders :
         \/ loop = LoopStart("train", 1, thr, TRUE, <<Batch(<<0>>, <<OneRow>>)>>, dl, <<>>)
         \/ loop = LoopStart("test", 0, thr, TRUE, <<>>, <<>>, dl)

SpecData == InitData /\ [][NextLoop]_vars

(***************************************************************************)
(* SpecMetric: metric_func on arrays of 1..MaxSamples rows and NumLabels   *)
(* columns; the binary predictions are the thresholded probabilities, as   *)
(* train() and test() build them.                                          *)
(***************************************************************************)
ProbLevels == {269, 731}
\* treshold_preds of the call that built the binary predictions: 0.5
MetricThresholds == {500}

InitMetric ==
    /\ NetIdle /\ LoopIdle
    /\ mpc = "call"
    /\ m_res = NoResult
    /\ \E k \in 1..MaxSamples, thr \in MetricThresholds :
         \E labels \in [1..k -> LabelRows], prob \in [1..k -> [1..NumLabels -> ProbLevels]] :
            m_args = [bin_labels |-> labels,
                      bin_preds |-> Threshold(prob, thr),
                      preds |-> prob]

\* metric_func(bin_labels, bin_preds, preds), lines 236-303
M_Call ==
    /\ mpc = "call"
    /\ m_res' = metric_func(m_args.bin_labels, m_args.bin_preds, m_args.preds)
    /\ mpc' = IF m_res'.raised THEN "raised" ELSE "returned"
    /\ UNCHANGED <<m_args, netVars, loopVars>>

NextMetric == M_Call

SpecMetric == InitMetric /\ [][NextMetric]_vars

InitNet == NetStart /\ LoopIdle /\ MetricIdle

SpecNet == InitNet /\ [][NextNet]_vars

(***************************************************************************)
(* Properties of ResNet (SpecNet).                                         *)
(***************************************************************************)
ExampleInput == Shape(4, InLeads, 1000)
ExampleNet == ResNetInit(<<3, 4, 6, 3>>, 5)

\* The shape forward returns and the shape it pools, once it has returned.
ForwardShapeOK ==
    npc = "done" =>
        /\ out = Shape(x_in.n, net.num_classes, 0)
        /\ pooled = Shape(x_in.n, 512 * 4, 1)
        /\ (x_in = ExampleInput /\ net = ExampleNet => out = Shape(4, 5, 0))

\* The inputs on which a BatchNorm1d in training mode sees one value per
\* channel: batch 1 and a length the five halvings bring down to 1.
OneValuePerChannel == training /\ x_in.n = 1 /\ x_in.l <= 32

\* C4, as the claim states it: for every input (batch, 12, L) with batch >= 1
\* and L >= 1 and all block counts >= 1, ResNet.forward returns, and what it
\* returns has shape (batch, num_classes), the pooled length being 1 and the
\* channel count entering the linear head 512*4.
C4_ForwardAlwaysReturns == npc # "raised" /\ ForwardShapeOK

\* C4, amended: ResNet.forward returns a tensor of shape (batch, num_classes),
\* with pooled length 1 and 512*4 channels entering the head, for every such
\* input except in training mode with batch = 1 and L <= 32, where a
\* BatchNorm1d raises and forward returns nothing; (4, 12, 1000) with layers
\* [3,4,6,3] and 5 classes gives (4, 5).
C4_ForwardShape ==
    /\ ForwardShapeOK
    /\ (npc = "raised" => OneValuePerChannel)
    /\ (OneValuePerChannel => npc # "done")

\* C4's case: the (4, 12, 1000) batch has gone through the [3,4,6,3] network.
C4_Witness ==
    /\ npc = "done" /\ x_in = ExampleInput /\ net = ExampleNet
    /\ out = Shape(4, 5, 0)

\* Where _make_layer attaches the projection, and what a block without one
\* looks like.
ProjectionPlacement ==
    \A k \in 1..4 : \A j \in 1..Len(net.layer[k]) :
        LET b == net.layer[k][j]
        IN /\ b.downsample.present <=> (j = 1)
           /\ (~b.downsample.present =>
                  b.stride = 1 /\ b.inplanes = b.planes * 4)
           /\ (k = 1 /\ j = 1 => b.stride = 1 /\ b.inplanes = 64)
           /\ (k > 1 /\ j = 1 => b.stride = 2 /\ b.inplanes # b.planes * 4)

\* C9: every Bottleneck built by _make_layer has its projection exactly on the
\* first block of its stage, a block without projection has stride 1 and
\* in-channels planes*4, and whenever a block reaches the addition the main
\* path and the residual path have the same shape, the block's output being
\* (batch, planes*4, floor((L-1)/s)+1) for input length L and stride s.
C9_ResidualShapes ==
    /\ ProjectionPlacement
    /\ (add_main.ok =>
          /\ add_res = add_main
          /\ blk_out = add_main
          /\ blk_out = Shape(blk_in.n, blk_done.planes * 4,
                         ((blk_in.l - 1) \div blk_done.stride) + 1))

\* C9's case: a block with a stride-2 projection has added its two paths on an
\* input of odd length, and the network also holds blocks without projection.
C9_Witness ==
    /\ add_main.ok /\ blk_done.downsample.present /\ blk_done.stride = 2
    /\ blk_in.l > 1 /\ blk_in.l % 2 = 1
    /\ \E k \in 1..4 : Len(net.layer[k]) > 1

(***************************************************************************)
(* Properties of metric_func (SpecMetric).                                 *)
(***************************************************************************)
RECURSIVE SumInts(_)
SumInts(q) == IF q = <<>> THEN 0 ELSE q[1] + SumInts(Tail(q))

\* Both classes occur in every label column of the call's ground truth.
BothClassesEverywhere ==
    \A c \in 1..Cols(m_args.bin_labels) : ~RocAucRaises(Column(m_args.bin_labels, c))

\* C6: the micro rates metric_func prints are the rates of the counts summed
\* over the labels: sensitivity = sum(TP)/(sum(TP)+sum(FN)), specificity =
\* sum(TN)/(sum(TN)+sum(FP)), precision = sum(TP)/(sum(TP)+sum(FP)) whenever
\* the denominator is not zero, and micro F1 = 2*sens*prec/(sens+prec) of
\* these rates whenever both exist and their sum is not zero.
C6_MicroIsPooled ==
    mpc = "returned" =>
        LET tp == SumInts(m_res.TP)
            fp == SumInts(m_res.FP)
            tn == SumInts(m_res.TN)
            fn == SumInts(m_res.FN)
            micro_line == CHOOSE l \in {m_res.printed[i] : i \in 1..Len(m_res.printed)} :
                              l.tag = "micro"
        IN /\ micro_line.v = <<m_res.micro.sensitivity, m_res.micro.specificity,
                               m_res.micro.precision, m_res.micro.f1>>
           /\ (tp + fn # 0 => m_res.micro.sensitivity = Frac(tp, tp + fn))
           /\ (tn + fp # 0 => m_res.micro.specificity = Frac(tn, tn + fp))
           /\ (tp + fp # 0 => m_res.micro.precision = Frac(tp, tp + fp))
           /\ (tp + fn # 0 /\ tp + fp # 0 /\ tp # 0 =>
                  \* 2*s*p/(s+p) for s = tp/(tp+fn), p = tp/(tp+fp)
                  m_res.micro.f1 = Frac(2 * tp, 2 * tp + fn + fp))

\* C6's case: metric_func has printed its blocks for labels whose counts
\* differ, so that the pooled precision is not the mean of the per-label ones.
C6_Witness ==
    /\ mpc = "returned"
    /\ IsFinite(m_res.micro.precision) /\ IsFinite(m_res.macro.precision)
    /\ m_res.micro.precision # m_res.macro.precision
    /\ m_res.micro.f1 # Num(1) /\ IsFinite(m_res.micro.f1) /\ m_res.micro.f1 # Num(0)

\* C7: when the binary predictions equal the labels in every entry and every
\* label column holds a positive and a negative sample, metric_func returns
\* with FP = FN = 0 for every label, and the macro F1, the micro F1 and the
\* mean of the per-label F1 are all exactly 1.
C7_PerfectF1 ==
    (mpc # "call" /\ m_args.bin_preds = m_args.bin_labels /\ BothClassesEverywhere) =>
        /\ mpc = "returned"
        /\ Len(m_res.FP) = Cols(m_args.bin_labels)
        /\ \A i \in 1..Len(m_res.FP) : m_res.FP[i] = 0 /\ m_res.FN[i] = 0
        /\ m_res.macro.f1 = Num(1)
        /\ m_res.micro.f1 = Num(1)
        /\ m_res.weighted_f1 = Num(1)

\* C7's case: metric_func has run on predictions equal to labels that hold
\* both classes in every column.
C7_Witness ==
    /\ mpc = "returned" /\ m_args.bin_preds = m_args.bin_labels
    /\ BothClassesEverywhere /\ Rows(m_args.bin_labels) >= 2

(***************************************************************************)
(* Properties of train() and test() (SpecTrain, SpecData).                 *)
(***************************************************************************)
\* How many entries of log q are of the given phase and epoch.
CountOf(q, phase, epoch) ==
    Cardinality({i \in 1..Len(q) : q[i].phase = phase /\ q[i].epoch = epoch})

PhaseRank(phase) == CASE phase = "train" -> 1 [] phase = "val" -> 2
                      [] phase = "metric" -> 3 [] OTHER -> 0

\* C1: in train() the batches and metric reports happen epoch by epoch, and in
\* each epoch as: every batch of train_loader, then every batch of val_loader,
\* then one call of metric_func; no validation batch of an epoch precedes its
\* last training batch, no training batch of the next epoch precedes the
\* metric report, and train() returns after the report of epoch n_epoch.
C1_PhaseOrder ==
    loop.call = "train" =>
        LET ev == loop.events
            nt == Len(loop.train_loader)
            nv == Len(loop.val_loader)
        IN /\ \A i \in 1..Len(ev) : \A j \in (i + 1)..Len(ev) :
                 /\ ev[i].epoch <= ev[j].epoch
                 /\ (ev[i].epoch = ev[j].epoch =>
                        /\ PhaseRank(ev[i].phase) <= PhaseRank(ev[j].phase)
                        /\ ~(ev[i].phase = "metric" /\ ev[j].phase = "metric"))
           /\ \A i \in 1..Len(ev) :
                 /\ ev[i].epoch \in 1..loop.n_epoch
                 /\ (ev[i].phase = "val" => CountOf(ev, "train", ev[i].epoch) = nt)
                 /\ (ev[i].phase = "metric" =>
                        /\ CountOf(ev, "train", ev[i].epoch) = nt
                        /\ CountOf(ev, "val", ev[i].epoch) = nv)
                 /\ (ev[i].phase = "train" /\ ev[i].epoch > 1 =>
                        CountOf(ev, "metric", ev[i].epoch - 1) = 1)
           /\ (pc = "returned" =>
                 \A e \in 1..loop.n_epoch :
                     /\ CountOf(ev, "train", e) = nt
                     /\ CountOf(ev, "val", e) = nv
                     /\ CountOf(ev, "metric", e) = 1)

\* C1's case: train() has returned after two epochs of two training and two
\* validation batches each.
C1_Witness ==
    /\ loop.call = "train" /\ pc = "returned" /\ loop.n_epoch = 2
    /\ Len(loop.train_loader) = 2 /\ Len(loop.val_loader) = 2
    /\ Len(loop.events) = 10

\* The sum of the losses the log holds for a phase of an epoch.
LossSum(q, phase, epoch) ==
    SumInts([i \in 1..Len(q) |->
               IF q[i].phase = phase /\ q[i].epoch = epoch THEN q[i].loss ELSE 0])

C2_Lengths ==
    loop.call = "train" =>
        /\ (pc = "t_epoch" =>
               /\ Len(loop.loss_train_history) = loop.epoch
               /\ Len(loop.loss_val_history) = loop.epoch)
        /\ (pc = "returned" =>
               /\ Len(loop.loss_train_history) = loop.n_epoch
               /\ Len(loop.loss_val_history) = loop.n_epoch)
        /\ \A e \in 1..Len(loop.loss_train_history) :
               loop.loss_train_history[e] =
                   Frac(LossSum(loop.losses, "train", e), Len(loop.train_loader))
        /\ \A e \in 1..Len(loop.loss_val_history) :
               loop.loss_val_history[e] =
                   Frac(LossSum(loop.losses, "val", e), Len(loop.val_loader))

IsPrefix(a, b) == Len(a) <= Len(b) /\ SubSeq(b, 1, Len(a)) = a

C2_AppendOnly ==
    /\ IsPrefix(loop.loss_train_history, loop'.loss_train_history)
    /\ IsPrefix(loop.loss_val_history, loop'.loss_val_history)
    /\ Len(loop'.loss_train_history) <= Len(loop.loss_train_history) + 1
    /\ Len(loop'.loss_val_history) <= Len(loop.loss_val_history) + 1

\* C2: the loss histories of train() are append-only with one entry per
\* completed epoch: both have length k when k epochs have completed and
\* n_epoch when train() returns (0 for n_epoch = 0), no step changes or
\* removes an earlier entry, and entry e is the sum of the per-batch losses of
\* epoch e divided by the number of batches of the loader.
C2_LossHistories == []C2_Lengths /\ [][C2_AppendOnly]_vars

\* C2's case: train() has returned after two epochs whose mean losses differ
\* from the sums they are made of.
C2_Witness ==
    /\ loop.call = "train" /\ pc = "returned" /\ loop.n_epoch = 2
    /\ Len(loop.loss_train_history) = 2 /\ Len(loop.loss_val_history) = 2
    /\ Len(loop.train_loader) = 2
    /\ loop.loss_train_history[1] # Num(LossSum(loop.losses, "train", 1))
    /\ loop.loss_train_history[1] # loop.loss_train_history[2]

TrainBatchOps == <<"zero_grad", "forward", "loss", "backward", "step">>

C3_Inv ==
    /\ (pc = "t_acc" => loop.ops = TrainBatchOps)
    /\ (pc \in {"t_iter", "t_mean"} =>
           loop.params = CountOf(loop.events, "train", loop.epoch + 1)
                         + loop.epoch * Len(loop.train_loader))
    /\ (pc \in {"v_fwd", "v_acc", "e_fwd", "e_acc"} =>
           \A i \in 1..Len(loop.ops) : loop.ops[i] \in {"forward", "loss"})
    /\ (pc \in {"v_iter", "e_iter"} /\ loop.it > 1 => loop.ops = <<"forward", "loss">>)
    /\ (loop.call = "test" =>
           /\ loop.params = 0
           /\ (pc \in {"e_mean", "e_metric", "e_report", "returned"} =>
                  CountOf(loop.events, "test", 0) = Len(loop.test_loader)))

C3_Step ==
    /\ (loop'.params # loop.params =>
           pc = "t_step" /\ pc' = "t_acc" /\ loop'.params = loop.params + 1)
    /\ (loop'.grad # loop.grad => pc \in {"t_zero", "t_bwd"})
    /\ (pc = "t_step" => loop'.params = loop.params + 1)

\* C3: the parameters change only in the training pass: each training batch
\* runs zero_grad, forward, loss, backward and one optimizer step in that
\* order, a validation or test batch runs forward and loss only, and test()
\* goes through its loader once and returns with the parameters it was given.
C3_ParamsOnlyInTraining == []C3_Inv /\ [][C3_Step]_vars

\* C3's case: the second epoch's validation pass runs after four optimizer steps.
C3_Witness ==
    /\ loop.call = "train" /\ pc = "v_acc" /\ loop.epoch = 1
    /\ loop.params = 4 /\ loop.ops = <<"forward">>

\* C10: every forward pass of a training batch runs in training mode, also in
\* the epochs after the first; every forward pass of a validation batch and of
\* test() runs in evaluation mode; train() returns with the network in
\* evaluation mode when n_epoch >= 1 and in the mode it was given when
\* n_epoch = 0.
C10_ModeMatchesPhase ==
    /\ (pc = "t_fwd" => loop.training)
    /\ (pc \in {"v_fwd", "e_fwd"} => ~loop.training)
    /\ (pc = "returned" /\ loop.call = "train" =>
           IF loop.n_epoch >= 1 THEN ~loop.training
           ELSE loop.training = loop.training0)

\* C10's case: a training batch of the second epoch is about to run forward,
\* the first epoch having left the network in evaluation mode.
C10_Witness ==
    /\ pc = "t_fwd" /\ loop.epoch = 1 /\ loop.training
    /\ Len(loop.loss_val_history) = 1

\* The loader whose batches the call of metric_func reports on.
ReportedLoader == IF loop.call = "train" THEN loop.val_loader ELSE loop.test_loader

\* A call of metric_func has just been made.
JustCalled == loop.metric_calls > 0 /\ pc \in {"t_report", "e_report", "raised"}

\* C5: at every call of metric_func by train() or test() the labels, binary
\* predictions and probabilities have one row per sample of the loader, in
\* loader order, and the same number of columns; a binary prediction is 1
\* exactly when its probability is strictly greater than treshold_preds, and
\* the probabilities are the sigmoid outputs of the network, not thresholded.
C5_MetricArguments ==
    JustCalled =>
        LET a == loop.metric_args
            ld == ReportedLoader
            all_labels == Concatenate([i \in 1..Len(ld) |-> ld[i].labels])
            all_sigs == Concatenate([i \in 1..Len(ld) |-> ld[i].ecg_signals])
        IN /\ Rows(a.bin_labels) = Len(all_sigs)
           /\ Rows(a.bin_preds) = Len(all_sigs)
           /\ Rows(a.preds) = Len(all_sigs)
           /\ a.bin_labels = all_labels
           /\ \A r \in 1..Len(all_sigs) :
                 /\ Len(a.bin_labels[r]) = NumLabels
                 /\ Len(a.bin_preds[r]) = NumLabels
                 /\ Len(a.preds[r]) = NumLabels
                 /\ \A c \in 1..NumLabels :
                       /\ a.bin_preds[r][c] \in {0, 1}
                       /\ a.bin_preds[r][c] = 1 <=> a.preds[r][c] > loop.treshold_preds
                       /\ a.preds[r][c] =
                              Sigmoid1(Logit(loop.params, FALSE, all_sigs[r], c))

\* C5's case: metric_func has been called on two batches of different samples,
\* one probability being equal to the threshold.
C5_Witness ==
    /\ JustCalled /\ Len(ReportedLoader) = 2
    /\ Rows(loop.metric_args.bin_labels) = 2
    /\ loop.metric_args.bin_labels[1] # loop.metric_args.bin_labels[2]
    /\ loop.metric_args.preds[1] # loop.metric_args.preds[2]
    /\ \E c \in 1..NumLabels : loop.metric_args.preds[1][c] = loop.treshold_preds

\* The label columns of the last call whose ground truth is all zero.
ZeroColumns ==
    {c \in 1..Cols(loop.metric_args.bin_labels) :
        \A r \in 1..Rows(loop.metric_args.bin_labels) :
            loop.metric_args.bin_labels[r][c] = 0}

PrintedTags == {loop.printed[i].tag : i \in 1..Len(loop.printed)}

\* What an all-zero label column does to the call, but for the precision.
ZeroColumnRaises(c) ==
    /\ loop.metric.raised /\ pc = "raised"
    /\ loop.metric.raised_at <= c
    /\ PrintedTags \cap {"micro", "macro", "weighted", "roc_auc", "report", "loss"} = {}
    /\ loop.epoch = 0
    /\ (loop.metric.raised_at = c =>
           /\ Len(loop.metric.roc_auc) = c - 1
           /\ loop.metric.sensitivity[c] = NaN
           /\ loop.metric.my_f1[c] = NaN)

\* C8, as the claim states it: a label column whose ground truth is all zero
\* makes roc_auc_score raise for that label, both its sensitivity and its
\* precision being 0/0, and the failure leaves metric_func and train()/test()
\* before any micro/macro/weighted block or loss line is printed and before
\* the next epoch.
C8_ZeroColumnBothUndefined ==
    JustCalled =>
        \A c \in ZeroColumns :
            /\ ZeroColumnRaises(c)
            /\ (loop.metric.raised_at = c => loop.metric.precision[c] = NaN)

\* C8, amended: as above, except that the precision of that label is 0/0 only
\* when no sample is predicted positive for it, and is 0 otherwise.
C8_ZeroColumn ==
    JustCalled =>
        \A c \in ZeroColumns :
            /\ ZeroColumnRaises(c)
            /\ (loop.metric.raised_at = c =>
                   loop.metric.precision[c] =
                       IF loop.metric.FP[c] = 0 THEN NaN ELSE Num(0))

\* C8's case: train() has stopped in metric_func at a label whose ground
\* truth is all zero and for which a sample is predicted positive.
C8_Witness ==
    /\ JustCalled /\ loop.call = "train"
    /\ \E c \in ZeroColumns :
          /\ loop.metric.raised_at = c /\ loop.metric.FP[c] > 0
          /\ loop.metric.precision[c] = Num(0)
          /\ Rows(loop.metric_args.bin_labels) = 2

====
